---- MODULE Spec2Model ----
(***************************************************************************)
(* Model of the warper displacement pipeline: the history manager of      *)
(* WarperProvider (undo / redo / restoreAll / onHistoryChange), the       *)
(* interaction state machine of WarpEffect (pointer, touch, key and timer *)
(* handlers), the ping-pong displacement buffers and the per-frame        *)
(* accumulation pass.                                                     *)
(*                                                                        *)
(* One action is one event handler together with the React re-render it   *)
(* causes and the effects of that render (RenderEffects).                 *)
(*                                                                        *)
(* A displacement field is a sequence of integers: <<>> is the all-zero   *)
(* field, a positive element is one brush pass with that pointer delta    *)
(* added on top of what precedes it, and a 0 element is one resampling of *)
(* the field to a render target of another size.                          *)
(***************************************************************************)
EXTENDS Integers, Sequences, FiniteSets, TLC

\* ---------------------------------------------------------------- bounds
MaxCommits == 1      \* stroke commits per behaviour of Spec
MaxPasses == 1       \* brush passes held by a field, in Spec
MaxTimers == 1       \* warp-delay timers pending at the same time
TouchTimers == 2     \* warp-delay timers pending at the same time, SpecTouch
HistoryCommits == 2  \* stroke commits per behaviour of SpecHistory
HistoryPasses == 2   \* brush passes held by a field, in SpecHistory
CapacityCommits == 7 \* stroke commits per behaviour of SpecCapacity
MaxViewSteps == 1    \* changes of zoom or pan per behaviour
MaxZoomSteps == 2    \* changes of the view per behaviour of SpecZoom
MaxImages == 2       \* images loaded per behaviour, the first one included

\* ------------------------------------------------------ program constants
MAX_HISTORY_SIZE == 15
DRAG_THRESHOLD   == 5
maxHistorySize   == 15
MinSnapshotSide  == 64
MobileMaxPixels  == 600000
DesktopMaxPixels == 2400000
MobileHistoryCap == 6
DesktopHistoryCap == 20
ZoomUnit         == 1000   \* zoom 1 in the model's fixed-point unit
MIN_ZOOM         == 50     \* 0.05
UVUnit           == 4      \* texture coordinates in units of 1 / UVUnit
FalloffUnit      == 100    \* falloff in units of 1 / FalloffUnit
PixelUnit        == 16     \* linear float channels in units of 1 / PixelUnit
MobileMaxZoom    == 24
DesktopMaxZoom   == 48

\* ------------------------------------------------------------ input sets
PointerTypes  == {"mouse", "touch"}       \* "pen" takes the branches of "touch"
MoveDistances == {3, 8}                 \* screen pixels from the anchor
Deltas        == {0, 1}                 \* currentUV - prevUV of a frame
TouchCounts   == {0, 1, 2}              \* e.touches.length
ImageSizes    == {<<1200, 1000>>}
UploadSizes   == {<<1200, 1000>>, <<800, 600>>}
WheelDeltas   == {-1, 1}                \* e.deltaY
PinchDistances == {0, 1, 100}           \* getTouchDistance(e.touches)
RestDistances == {0}                    \* two touch points at the same place
PanDeltas     == {0, 1}                 \* pointer or touch centre minus panStart
StillDeltas   == {0}
TexelUVs      == 0..UVUnit              \* vUv along one axis of the quad
MouseUVs      == {1, 2}                 \* currentUV
PrevMouseUVs  == {1, 2}                 \* prevUV
BrushSizes    == {50, 100, 150}         \* brushSize of the settings slider
BrushStrengths == {50, 100}             \* brushStrength of the settings slider
PrevDisps     == {0, 7}                 \* texel of uPrevDisp
HdrSizes      == {<<2, 2>>, <<1, 2>>, <<2, 1>>}   \* <<width, height>>
\* RGBA pixels of the float read-back: (4, 0, 0), black, (0.5, 1, 0.25)
\* and one with a negative channel, each with alpha 1
HdrPixels     == {<<64, 0, 0, 16>>, <<0, 0, 0, 16>>, <<8, 16, 4, 16>>,
                  <<-16, 2, 0, 16>>}

\* JavaScript values handed to exportAtResolution.  A number is kept in
\* halves, so that Number(201) is 100.5; NotFinite stands for NaN and the
\* infinities.
Number(h)   == [type |-> "number", finite |-> TRUE, halves |-> h,
                keys |-> 0, isNull |-> FALSE, hdr |-> FALSE]
NotFinite   == [type |-> "number", finite |-> FALSE, halves |-> 0,
                keys |-> 0, isNull |-> FALSE, hdr |-> FALSE]
String      == [type |-> "string", finite |-> FALSE, halves |-> 0,
                keys |-> 0, isNull |-> FALSE, hdr |-> FALSE]
Null        == [type |-> "object", finite |-> FALSE, halves |-> 0,
                keys |-> 0, isNull |-> TRUE, hdr |-> FALSE]
EmptyObject == [type |-> "object", finite |-> FALSE, halves |-> 0,
                keys |-> 0, isNull |-> FALSE, hdr |-> FALSE]
Options(hdr) == [type |-> "object", finite |-> FALSE, halves |-> 0,
                 keys |-> 1, isNull |-> FALSE, hdr |-> hdr]
ExportSides == {Number(-200), Number(0), Number(200), Number(201),
                NotFinite, String}
ExportArgLists ==
  {<<>>, <<Number(200), Number(200), Options(FALSE), Options(FALSE)>>}
  \cup {<<v>> : v \in ExportSides \cup {Null, EmptyObject, Options(TRUE)}}
  \cup {<<w, Number(200)>> : w \in ExportSides}
  \cup {<<Number(200), h>> : h \in ExportSides}
  \cup {<<Number(200), Number(200), o>> :
          o \in {Options(TRUE), Options(FALSE), Null, String}}

VARIABLES
  isMobile,            \* isMobileDevice()
  texture,             \* [width, height] of the decoded source image
  history,             \* WarperProvider history
  historyIndex,        \* WarperProvider historyIndex (0-based, -1 = none)
  isComparing,
  isWarping, isPanning, spacePressed, isTwoFingerGesture,
  isDragStarted, isWarpingDelayed,
  warpDelayTimeout,    \* TRUE iff warpDelayTimeout.current holds a handle
  timers,              \* number of scheduled, not yet fired or cleared timers
  fbos,                \* fbosRef.current : the displacement buffer pair
  currentFBOIndex,     \* 0 or 1
  uDisplacement,       \* index of the buffer bound to the display material
  prevHistoryIndex, justAddedHistory,
  nextTarget,          \* serial number of the next snapshot render target
  lastOp,              \* the history or stroke-ending operation that
                       \* ran last, "none" after any other handler
  saved,               \* authoritative field before the last undo()
  zoom,                \* WarperProvider zoom, in units of 1 / ZoomUnit
  panX,                \* WarperProvider panX
  viewOps,             \* number of view changes made so far
  touchDistance,       \* finger distance at the start of the pinch, 0 = none
  initialZoom,         \* initialZoom.current
  initialPan,          \* initialPan.current.x
  live,                \* GPU resources allocated and not yet disposed
  isInitialized,
  exportFunction,      \* TRUE iff WarperProvider holds exportAtResolution
  lastExport,          \* outcome of the last exportAtResolution call
  loads,               \* number of source images decoded so far
  pendingImage,        \* size of the image being decoded, <<>> if none
  brushSize,           \* WarperProvider brushSize
  uBrushSizeValue,     \* brushMaterial.uniforms.uBrushSize.value, in units
                       \* of 1 / (200 * ZoomUnit)
  fragment,            \* the last run of the brush fragment shader on a texel
  hdrFile              \* the last call of createHDRFile and its result

vars == <<isMobile, texture, history, historyIndex, isComparing,
          isWarping, isPanning, spacePressed, isTwoFingerGesture,
          isDragStarted, isWarpingDelayed, warpDelayTimeout, timers,
          fbos, currentFBOIndex, uDisplacement,
          prevHistoryIndex, justAddedHistory, nextTarget, lastOp, saved,
          zoom, panX, viewOps, touchDistance, initialZoom, initialPan,
          live, isInitialized, exportFunction, lastExport,
          loads, pendingImage, brushSize, uBrushSizeValue,
          fragment, hdrFile>>

kernels   == <<fragment, hdrFile>>
view      == <<zoom, panX, viewOps>>
brush     == <<brushSize, uBrushSizeValue>>
gesture   == <<touchDistance, initialZoom, initialPan>>
component == <<live, isInitialized, exportFunction, lastExport,
               loads, pendingImage>>

\* ---------------------------------------------------------------- helpers
Min(a, b) == IF a < b THEN a ELSE b
Max(a, b) == IF a > b THEN a ELSE b

ZeroDisp == <<>>
NoField  == <<-1>>

\* history[0] pushed by the initialisation effect: onHistoryChange([null])
NullItem == [target |-> 0, width |-> 0, height |-> 0, disp |-> ZeroDisp]
IsNull(item) == item.target = 0

\* number of brush passes recorded in a field
RECURSIVE PassCount(_)
PassCount(d) ==
  IF d = <<>> THEN 0
  ELSE (IF d[1] > 0 THEN 1 ELSE 0) + PassCount(Tail(d))

RECURSIVE IntPow(_, _)
IntPow(b, n) == IF n = 0 THEN 1 ELSE b * IntPow(b, n - 1)

\* floor of the square root, for 0 <= v <= FalloffUnit^2
Sqrt(v) == CHOOSE r \in 0..FalloffUnit : r * r <= v /\ v < (r + 1) * (r + 1)

\* variant: the brush moves texels by the pointer position
toMouse_Position(uMouse, uPrevMouse) == uMouse

\* BrushShader.fragmentShader: vec2 toMouse = uMouse - uPrevMouse
toMouse(uMouse, uPrevMouse) == uMouse - uPrevMouse

\* brushSize / 200.0, in units of 1 / UVUnit
uBrushSize(bSize) == (bSize * UVUnit) \div 200

\* mix(1.0, 8.0, clamp(uBrushStrength, 0.0, 1.0)), in halves
exponent(brushStrength) ==
  2 + (14 * Max(0, Min(100, brushStrength))) \div 100

\* variant: the falloff grows with the distance from the pointer
fromEdge_Normalized(dist, size) == dist

\* clamp(1.0 - normalized, 0.0, 1.0) as a numerator over uBrushSize
fromEdge(dist, size) == Max(0, Min(size, size - dist))

\* pow(clamp(1.0 - normalized, 0.0, 1.0), exponent), in units of
\* 1 / FalloffUnit, rounded down
falloff(dist, size, brushStrength) ==
  LET num  == fromEdge(dist, size)
      k    == exponent(brushStrength)
      m    == k \div 2
      root == IF k % 2 = 0 THEN FalloffUnit
              ELSE Sqrt((num * FalloffUnit * FalloffUnit) \div size)
  IN  (IntPow(num, m) * root) \div IntPow(size, m)

\* every Float32Array of n RGBA pixels drawn from HdrPixels
RECURSIVE FloatBuffers(_)
FloatBuffers(n) ==
  IF n = 0 THEN {<<>>}
  ELSE {px \o rest : px \in HdrPixels, rest \in FloatBuffers(n - 1)}

LF == "\n"

\* a number in a template literal: its decimal digits
RECURSIVE Decimal(_)
Decimal(n) ==
  LET digit == <<"0", "1", "2", "3", "4", "5", "6", "7", "8", "9">>[(n % 10) + 1]
  IN  IF n < 10 THEN <<digit>> ELSE Append(Decimal(n \div 10), digit)

\* variant: every element is followed by the separator
RECURSIVE Join_Terminated(_, _)
Join_Terminated(parts, sep) ==
  IF parts = <<>> THEN <<>>
  ELSE parts[1] \o <<sep>> \o Join_Terminated(Tail(parts), sep)

\* Array.prototype.join: the separator goes between the elements
RECURSIVE Join(_, _)
Join(parts, sep) ==
  IF parts = <<>> THEN <<>>
  ELSE IF Len(parts) = 1 THEN parts[1]
  ELSE parts[1] \o <<sep>> \o Join(Tail(parts), sep)

\* createHDRFile: the header array joined with "\n"; an element is the
\* sequence of its pieces of text, the empty string the empty sequence
header(width, height) ==
  Join(<< <<"#?RADIANCE">>,
          <<"# Created by Warper App - HDR Export">>,
          <<"FORMAT=32-bit_rle_rgbe">>,
          <<"EXPOSURE=1.0">>,
          <<"GAMMA=1.0">>,
          <<>>,
          <<"-Y ">> \o Decimal(height) \o <<" +X ">> \o Decimal(width),
          <<>> >>, LF)

\* value >= 2^e, for a value in units of 1 / PixelUnit
AtLeastPow2(value, e) ==
  IF e >= 0 THEN value >= PixelUnit * IntPow(2, e)
  ELSE value * IntPow(2, -e) >= PixelUnit

\* Math.floor(Math.log2(max)), for max > 0
floorLog2(max) ==
  CHOOSE e \in -8..8 : AtLeastPow2(max, e) /\ ~AtLeastPow2(max, e + 1)

\* Math.min(255, Math.max(0, Math.floor(c * scale + 0.5))) with
\* scale = Math.pow(2, -exponent) * 256.0
mantissa(c, exp) ==
  LET rounded == IF exp >= 0
                 THEN (2 * c * 256 + PixelUnit * IntPow(2, exp))
                        \div (2 * PixelUnit * IntPow(2, exp))
                 ELSE (2 * c * 256 * IntPow(2, -exp) + PixelUnit)
                        \div (2 * PixelUnit)
  IN  Min(255, Max(0, rounded))

\* createHDRFile: the four RGBE bytes of pixel i (from 0) of floatPixels
rgbe(floatPixels, i) ==
  LET r   == Max(0, floatPixels[i * 4 + 1])
      g   == Max(0, floatPixels[i * 4 + 2])
      b   == Max(0, floatPixels[i * 4 + 3])
      max == Max(r, Max(g, b))
      exp == Max(-128, Min(127, floorLog2(max) + 1))
  IN  IF max = 0 THEN <<0, 0, 0, 0>>
      ELSE <<mantissa(r, exp), mantissa(g, exp), mantissa(b, exp), exp + 128>>

RECURSIVE rgbeData(_, _)
rgbeData(floatPixels, n) ==
  IF n = 0 THEN <<>>
  ELSE rgbeData(floatPixels, n - 1) \o rgbe(floatPixels, n - 1)

\* BrushShader: newDisp = prevDisp + delta * falloff * strength
Accumulate(prevDisp, delta) ==
  IF delta = 0 THEN prevDisp ELSE Append(prevDisp, delta)

\* gl.render of a full-screen quad textured with a field of size sw x sh
\* into a render target of size dw x dh
RenderCopy(d, sw, sh, dw, dh) ==
  IF (sw = dw /\ sh = dh) \/ d = ZeroDisp THEN d ELSE Append(d, 0)

historyLimit ==
  IF isMobile THEN Min(MobileHistoryCap, MAX_HISTORY_SIZE)
  ELSE Min(DesktopHistoryCap, MAX_HISTORY_SIZE)

\* smallest n in lo..hi with (2n+1)^2 > f, i.e. round(sqrt(f / 4))
RECURSIVE RoundHalfSqrt(_, _, _)
RoundHalfSqrt(f, lo, hi) ==
  IF lo >= hi THEN lo
  ELSE LET mid == (lo + hi) \div 2 IN
       IF (2 * mid + 1) * (2 * mid + 1) > f
       THEN RoundHalfSqrt(f, lo, mid)
       ELSE RoundHalfSqrt(f, mid + 1, hi)

\* Math.max(64, Math.round(a * scale)) with
\* scale = total > maxPixels ? sqrt(maxPixels / total) : 1, total = a * b
SnapshotSide(a, b) ==
  LET maxPixels == IF isMobile THEN MobileMaxPixels ELSE DesktopMaxPixels
      total     == a * b
      \* floor(4 * a * maxPixels / b) without leaving 32 bits
      f         == a * ((4 * maxPixels) \div b)
                   + (a * ((4 * maxPixels) % b)) \div b
      scaled    == IF total > maxPixels THEN RoundHalfSqrt(f, 0, a) ELSE a
  IN  Max(MinSnapshotSide, scaled)

\* ------------------------------------------------------- history helpers
\* utils/webgl.ts cleanupHistory(history, maxSize): the third argument the
\* caller passes is never called by this function
cleanupHistory(h, maxSize) ==
  IF Len(h) <= maxSize THEN h
  ELSE SubSeq(h, Len(h) - maxSize + 1, Len(h))

\* the list WarperProvider.onHistoryChange stores
onHistoryChange(newHistory) ==
  IF Len(newHistory) > maxHistorySize
  THEN <<newHistory[1]>>
       \o SubSeq(newHistory, Len(newHistory) - maxHistorySize + 2,
                 Len(newHistory))
  ELSE newHistory

\* copy of the (all-zero) original state into both buffers
restoreToOriginal(fb) ==
  [i \in 1..Len(fb) |-> [fb[i] EXCEPT !.disp = ZeroDisp]]

\* variant: the snapshot is copied into the first buffer of the pair only
restoreFromHistory_FirstOnly(h, target, fb) ==
  IF Len(h) = 0 \/ target < 0 \/ target >= Len(h) \/ Len(fb) = 0
  THEN fb
  ELSE LET snapshot == h[target + 1] IN
       [fb EXCEPT ![1].disp =
          IF IsNull(snapshot) THEN ZeroDisp
          ELSE RenderCopy(snapshot.disp, snapshot.width, snapshot.height,
                          fb[1].width, fb[1].height)]

\* the buffers after restoreFromHistory(target) closed over history list h
restoreFromHistory(h, target, fb) ==
  IF Len(h) = 0 \/ target < 0 \/ target >= Len(h) \/ Len(fb) = 0
  THEN fb
  ELSE LET snapshot == h[target + 1] IN
       IF IsNull(snapshot) THEN restoreToOriginal(fb)
       ELSE [i \in 1..Len(fb) |->
               [fb[i] EXCEPT !.disp =
                  RenderCopy(snapshot.disp, snapshot.width, snapshot.height,
                             fb[i].width, fb[i].height)]]

\* the field a history entry restores into a buffer of the pair
Decode(item) ==
  IF IsNull(item) THEN ZeroDisp
  ELSE RenderCopy(item.disp, item.width, item.height,
                  fbos[1].width, fbos[1].height)

\* ------------------------------------------------------- render effects
\* variant: the restore effect does not look at isWarping
RestoreEffect_IgnoresWarping(h, idx, warping, ja, prev, fb) ==
  IF ja THEN fb
  ELSE IF idx # prev
       THEN IF idx >= 0 /\ idx < Len(h) /\ Len(h) > 0
            THEN restoreFromHistory(h, idx, fb)
            ELSE IF idx = -1 THEN restoreToOriginal(fb) ELSE fb
       ELSE fb

\* The buffers after the restore effect (deps historyIndex, history.length,
\* isWarping, restoreFromHistory) of a render with the new state.
RestoreEffect(h, idx, warping, ja, prev, fb) ==
  IF ja THEN fb
  ELSE IF ~warping /\ idx # prev
       THEN IF idx >= 0 /\ idx < Len(h) /\ Len(h) > 0
            THEN restoreFromHistory(h, idx, fb)
            ELSE IF idx = -1 THEN restoreToOriginal(fb) ELSE fb
       ELSE fb

\* The buffers after the compare effect body: the original state is copied
\* into both buffers while comparing.
CompareEffect(cmp, fb) ==
  IF cmp /\ Len(fb) > 0 THEN restoreToOriginal(fb) ELSE fb

\* variant: the compare effect has no cleanup function
RenderEffects_NoCleanup(h, idx, warping, cmp, histChanged, ja, fb) ==
  LET restoreDeps == idx # historyIndex \/ Len(h) # Len(history)
                     \/ warping # isWarping \/ histChanged
      compareDeps == cmp # isComparing \/ histChanged \/ idx # historyIndex
      cleanup     == FALSE
      restore     == restoreDeps /\ ~ja /\ ~warping /\ idx # prevHistoryIndex
                     /\ idx >= -1 /\ idx < Len(h)
      compare     == compareDeps /\ cmp /\ Len(fb) > 0
      fb1 == IF cleanup
             THEN restoreFromHistory(history, historyIndex, fb) ELSE fb
      fb2 == IF restoreDeps
             THEN RestoreEffect(h, idx, warping, ja, prevHistoryIndex, fb1)
             ELSE fb1
      fb3 == IF compareDeps THEN CompareEffect(cmp, fb2) ELSE fb2
  IN  [fbos |-> fb3,
       justAddedHistory |-> IF restoreDeps THEN FALSE ELSE ja,
       prevHistoryIndex |-> IF restoreDeps THEN idx ELSE prevHistoryIndex,
       rebind |-> (cleanup \/ restore \/ compare) /\ Len(fb) > 0]

\* Effects of the render that follows a handler, in React's order: the
\* cleanup of the previous compare effect (closed over the old history and
\* index), then the restore effect, then the compare effect body.  Each runs
\* only when one of its dependencies changed.  fb and ja are the buffers and
\* the just-added mark as the handler left them.
RenderEffects(h, idx, warping, cmp, histChanged, ja, fb) ==
  LET restoreDeps == idx # historyIndex \/ Len(h) # Len(history)
                     \/ warping # isWarping \/ histChanged
      compareDeps == cmp # isComparing \/ histChanged \/ idx # historyIndex
      cleanup     == compareDeps /\ isComparing
                     /\ Len(history) > 0 /\ historyIndex >= 0
                     /\ historyIndex < Len(history)
      restore     == restoreDeps /\ ~ja /\ ~warping /\ idx # prevHistoryIndex
                     /\ idx >= -1 /\ idx < Len(h)
      compare     == compareDeps /\ cmp /\ Len(fb) > 0
      fb1 == IF cleanup
             THEN restoreFromHistory(history, historyIndex, fb) ELSE fb
      fb2 == IF restoreDeps
             THEN RestoreEffect(h, idx, warping, ja, prevHistoryIndex, fb1)
             ELSE fb1
      fb3 == IF compareDeps THEN CompareEffect(cmp, fb2) ELSE fb2
  IN  [fbos |-> fb3,
       justAddedHistory |-> IF restoreDeps THEN FALSE ELSE ja,
       prevHistoryIndex |-> IF restoreDeps THEN idx ELSE prevHistoryIndex,
       rebind |-> (cleanup \/ restore \/ compare) /\ Len(fb) > 0]

\* Commit of the new React state and of the refs the effects wrote.  Every
\* copy made by a restore rebinds the display material to the authoritative
\* buffer.
Render(h, idx, warping, cmp, histChanged, ja) ==
  LET r == RenderEffects(h, idx, warping, cmp, histChanged, ja, fbos) IN
  /\ history' = h
  /\ historyIndex' = idx
  /\ isWarping' = warping
  /\ isComparing' = cmp
  /\ fbos' = r.fbos
  /\ justAddedHistory' = r.justAddedHistory
  /\ prevHistoryIndex' = r.prevHistoryIndex
  /\ uDisplacement' = IF r.rebind THEN currentFBOIndex ELSE uDisplacement

\* ------------------------------------------------------- GPU resources
\* the render targets the buffer initialisation effect allocates for the
\* k-th image: the displacement pair and the original state
BufferResources(k) == {<<"fbo", k, 1>>, <<"fbo", k, 2>>, <<"original", k>>}

\* the render target of a history snapshot
SnapshotResource(item) == <<"snapshot", item.target>>

\* the render targets held by the entries of a history list
SnapshotResources(h) ==
  {SnapshotResource(h[i]) : i \in {j \in 1..Len(h) : ~IsNull(h[j])}}

\* ------------------------------------------------------------------ view
maxZoom == (IF isMobile THEN MobileMaxZoom ELSE DesktopMaxZoom) * ZoomUnit

clampZoom(value) == Max(MIN_ZOOM, Min(maxZoom, value))

\* the brush uniform effect (deps brushSize, brushStrength, zoom):
\* uBrushSize.value = brushSize / 200 / zoom
BrushUniformEffect(size, z) == (size * ZoomUnit * ZoomUnit) \div z

\* the brush uniform after a render with the zoom z and the brush size
\* size: the effect runs when one of the two changed
BrushUniform(size, z) ==
  /\ brushSize' = size
  /\ uBrushSizeValue' = IF size # brushSize \/ z # zoom
                        THEN BrushUniformEffect(size, z)
                        ELSE uBrushSizeValue

\* handleZoomChange and handlePanChange of WarperProvider, as one render
SetView(newZoom, newPanX) ==
  LET changed == newZoom # zoom \/ newPanX # panX IN
  /\ changed => viewOps < MaxViewSteps
  /\ BrushUniform(brushSize, newZoom)
  /\ zoom' = newZoom
  /\ panX' = newPanX
  /\ viewOps' = IF changed THEN viewOps + 1 ELSE viewOps

\* fragment before any run of the brush shader
NoFragment == [vUv |-> 0, uMouse |-> 0, uPrevMouse |-> 0, brushSize |-> 0,
               brushStrength |-> 0, prevDisp |-> 0, dist |-> 0,
               falloff |-> 0, disp |-> 0]

\* hdrFile before any call of createHDRFile
NoFile == [floatPixels |-> <<>>, width |-> 0, height |-> 0,
           header |-> <<>>, rgbeData |-> <<>>]

\* lastExport before any call of exportAtResolution
NoExport == [result |-> "none", report |-> "none", rendered |-> FALSE,
             source |-> -1, disp |-> NoField, width |-> 0, height |-> 0]

\* the pending warp-delay timer is cleared, if there is one
ClearWarpDelay ==
  /\ warpDelayTimeout' = FALSE
  /\ timers' = IF warpDelayTimeout THEN timers - 1 ELSE timers

Init ==
  /\ isMobile \in BOOLEAN
  /\ texture \in {[width |-> s[1], height |-> s[2]] : s \in ImageSizes}
  /\ history = <<NullItem>>
  /\ historyIndex = 0
  /\ isComparing = FALSE
  /\ isWarping = FALSE /\ isPanning = FALSE /\ spacePressed = FALSE
  /\ isTwoFingerGesture = FALSE
  /\ isDragStarted = FALSE /\ isWarpingDelayed = FALSE
  /\ warpDelayTimeout = FALSE /\ timers = 0
  /\ fbos = [i \in 1..2 |-> [width |-> texture.width,
                              height |-> texture.height,
                              disp |-> ZeroDisp]]
  /\ currentFBOIndex = 0
  /\ uDisplacement = 0
  /\ prevHistoryIndex = 0
  /\ justAddedHistory = FALSE
  /\ nextTarget = 1
  /\ lastOp = "load"
  /\ saved = NoField
  /\ zoom = ZoomUnit /\ panX = 0 /\ viewOps = 0
  /\ brushSize = 50
  /\ uBrushSizeValue = BrushUniformEffect(50, ZoomUnit)
  /\ touchDistance = 0 /\ initialZoom = ZoomUnit /\ initialPan = 0
  /\ live = BufferResources(1)
  /\ isInitialized = TRUE
  /\ exportFunction = TRUE
  /\ lastExport = NoExport
  /\ loads = 1
  /\ pendingImage = <<>>
  /\ fragment = NoFragment
  /\ hdrFile = NoFile

\* ------------------------------------------------- interaction guards
\* variant: the accumulation pass does not look at isComparing
FrameWarpGuard_NoCompare ==
  /\ isWarping /\ isWarpingDelayed
  /\ ~isPanning /\ ~isTwoFingerGesture
  /\ isDragStarted

\* useFrame: the condition under which an accumulation pass is issued
\* (apart from the raycast hit)
FrameWarpGuard ==
  /\ isWarping /\ isWarpingDelayed
  /\ ~isPanning /\ ~isTwoFingerGesture /\ ~isComparing
  /\ isDragStarted

\* variant: the pan branch of handlePointerMove looks at isPanning only
PointerPanGuard_NoTwoFinger == isPanning

\* handlePointerMove: the condition under which a pointer move pans the view
PointerPanGuard == isPanning /\ ~isTwoFingerGesture

\* handleTouchMove: the condition under which a touch move drives
\* pinch-zoom and two-finger pan
PinchGuard(n) == n = 2 /\ isPanning /\ isTwoFingerGesture

\* historyRef.current, synchronised with history by an effect of every
\* render that changed the list
historyRef == history

static == <<isMobile, texture>>

interaction == <<isPanning, spacePressed, isTwoFingerGesture, isDragStarted,
                 isWarpingDelayed, warpDelayTimeout, timers>>

\* ------------------------------------------------------ pointer handlers
handlePointerDown(ptype) ==
  LET skip  == isTwoFingerGesture \/ isComparing
      pan   == ~skip /\ spacePressed
      start == ~skip /\ ~spacePressed /\ ~isPanning
  IN
  /\ IF skip THEN UNCHANGED <<warpDelayTimeout, timers>> ELSE ClearWarpDelay
  /\ isPanning' = IF pan THEN TRUE ELSE isPanning
  /\ isDragStarted' = IF start THEN ptype = "mouse" ELSE isDragStarted
  /\ isWarpingDelayed' = IF start THEN ptype = "mouse" ELSE isWarpingDelayed
  /\ Render(history, historyIndex,
            IF start /\ ptype = "mouse" THEN TRUE ELSE isWarping,
            isComparing, FALSE, justAddedHistory)
  /\ UNCHANGED <<kernels, static, spacePressed, isTwoFingerGesture, currentFBOIndex,
                 nextTarget>>
  /\ lastOp' = "none"
  /\ saved' = NoField
  /\ initialPan' = IF pan THEN panX ELSE initialPan
  /\ UNCHANGED <<brush, view, touchDistance, initialZoom, component>>

\* variant: the warp-delay timer is started without the distance threshold
PointerMove_NoThreshold(ptype, screenDistance, deltaX, maxTimers) ==
  LET arm == /\ ~PointerPanGuard
             /\ ~isPanning /\ ~isTwoFingerGesture /\ ~spacePressed
             /\ ~isComparing /\ ptype # "mouse"
             /\ ~isDragStarted /\ ~isWarping
  IN
  /\ arm => timers < maxTimers
  /\ isDragStarted' = IF arm THEN TRUE ELSE isDragStarted
  /\ warpDelayTimeout' = IF arm THEN TRUE ELSE warpDelayTimeout
  /\ timers' = IF arm THEN timers + 1 ELSE timers
  /\ Render(history, historyIndex, isWarping, isComparing, FALSE,
            justAddedHistory)
  /\ UNCHANGED <<kernels, static, isPanning, spacePressed, isTwoFingerGesture,
                 isWarpingDelayed, currentFBOIndex, nextTarget>>
  /\ lastOp' = "none"
  /\ saved' = NoField
  /\ SetView(zoom, IF PointerPanGuard THEN initialPan + deltaX ELSE panX)
  /\ UNCHANGED <<gesture, component>>

PointerMove(ptype, screenDistance, deltaX, maxTimers) ==
  LET arm == /\ ~PointerPanGuard
             /\ ~isPanning /\ ~isTwoFingerGesture /\ ~spacePressed
             /\ ~isComparing /\ ptype # "mouse"
             /\ ~isDragStarted /\ ~isWarping
             /\ screenDistance > DRAG_THRESHOLD
  IN
  /\ arm => timers < maxTimers
  /\ isDragStarted' = IF arm THEN TRUE ELSE isDragStarted
  /\ warpDelayTimeout' = IF arm THEN TRUE ELSE warpDelayTimeout
  /\ timers' = IF arm THEN timers + 1 ELSE timers
  /\ Render(history, historyIndex, isWarping, isComparing, FALSE,
            justAddedHistory)
  /\ UNCHANGED <<kernels, static, isPanning, spacePressed, isTwoFingerGesture,
                 isWarpingDelayed, currentFBOIndex, nextTarget>>
  /\ lastOp' = "none"
  /\ saved' = NoField
  /\ SetView(zoom, IF PointerPanGuard THEN initialPan + deltaX ELSE panX)
  /\ UNCHANGED <<gesture, component>>

handlePointerMove(ptype, screenDistance) ==
  \E deltaX \in StillDeltas :
     PointerMove(ptype, screenDistance, deltaX, MaxTimers)

\* variant: the snapshot is taken of the other buffer of the pair
Snapshot_OtherBuffer ==
  LET currentDisp    == fbos[((currentFBOIndex + 1) % 2) + 1]
      snapshotWidth  == SnapshotSide(currentDisp.width, currentDisp.height)
      snapshotHeight == SnapshotSide(currentDisp.height, currentDisp.width)
  IN  [target |-> nextTarget,
       width  |-> snapshotWidth,
       height |-> snapshotHeight,
       disp   |-> RenderCopy(currentDisp.disp,
                             currentDisp.width, currentDisp.height,
                             snapshotWidth, snapshotHeight)]

\* the snapshot handlePointerUp takes of the authoritative buffer
Snapshot ==
  LET currentDisp    == fbos[currentFBOIndex + 1]
      snapshotWidth  == SnapshotSide(currentDisp.width, currentDisp.height)
      snapshotHeight == SnapshotSide(currentDisp.height, currentDisp.width)
  IN  [target |-> nextTarget,
       width  |-> snapshotWidth,
       height |-> snapshotHeight,
       disp   |-> RenderCopy(currentDisp.disp,
                             currentDisp.width, currentDisp.height,
                             snapshotWidth, snapshotHeight)]

\* variant: the new snapshot is appended to the whole list
CommittedHistory_NoTruncate ==
  cleanupHistory(Append(history, Snapshot), historyLimit)

\* the list handlePointerUp hands to onHistoryChange
CommittedHistory ==
  LET preservedHistory == SubSeq(history, 1, historyIndex + 1)
      currentHistory   == Append(preservedHistory, Snapshot)
  IN  cleanupHistory(currentHistory, historyLimit)

\* variant: the disposal also takes the entry the index points at
discardedHistory_FromCurrent == SubSeq(history, historyIndex + 1, Len(history))

\* the redo entries handlePointerUp disposes before it appends
discardedHistory == SubSeq(history, historyIndex + 2, Len(history))

\* handlePointerUp takes the stroke branch
StrokeEnds ==
  /\ ~isPanning
  /\ isWarping \/ isWarpingDelayed
  /\ ~isTwoFingerGesture /\ ~isComparing
  /\ isDragStarted

\* variant: every release outside a pan or a gesture saves to the history
StrokeCommits_EveryRelease ==
  ~isPanning /\ ~isTwoFingerGesture /\ ~isComparing /\ Len(fbos) > 0

\* handlePointerUp saves the stroke to the history
StrokeCommits == StrokeEnds /\ isWarpingDelayed /\ Len(fbos) > 0

\* variant: handlePointerUp does not mark the commit
justAddedMark_Unset == justAddedHistory

\* justAddedHistory.current when handlePointerUp returns: set by a commit
justAddedMark == StrokeCommits \/ justAddedHistory

\* handlePointerUp(e), and with out = TRUE the onPointerOut handler, which
\* calls handlePointerUp() and then clears the three stroke flags
PointerRelease(out, maxCommits) ==
  LET h == IF StrokeCommits THEN onHistoryChange(CommittedHistory)
           ELSE history
  IN
  /\ StrokeCommits => nextTarget <= maxCommits
  /\ ClearWarpDelay
  /\ isPanning' = FALSE
  /\ isDragStarted' = IF isPanning /\ ~out THEN isDragStarted ELSE FALSE
  /\ isWarpingDelayed' = IF isPanning /\ ~out THEN isWarpingDelayed ELSE FALSE
  /\ Render(h,
            IF StrokeCommits THEN Len(h) - 1 ELSE historyIndex,
            IF isPanning /\ ~out THEN isWarping ELSE FALSE,
            isComparing, StrokeCommits, justAddedMark)
  /\ nextTarget' = IF StrokeCommits THEN nextTarget + 1 ELSE nextTarget
  /\ UNCHANGED <<kernels, static, spacePressed, isTwoFingerGesture, currentFBOIndex>>
  /\ lastOp' = IF StrokeCommits THEN "commit"
               ELSE IF ~isPanning /\ ~out /\ ~isWarpingDelayed
                       /\ isDragStarted /\ warpDelayTimeout THEN "tap"
               ELSE "none"
  /\ saved' = NoField
  /\ live' = IF StrokeCommits
             THEN (live \ SnapshotResources(discardedHistory))
                  \cup {SnapshotResource(Snapshot)}
             ELSE live
  /\ UNCHANGED <<brush, view, gesture, isInitialized, exportFunction, lastExport,
                 loads, pendingImage>>

handlePointerUp == PointerRelease(FALSE, MaxCommits)

onPointerOut == PointerRelease(TRUE, MaxCommits)

\* -------------------------------------------------------- touch handlers
\* variant: a second touch point does not end the stroke in progress
TouchStart_KeepsStroke(n, distance) ==
  LET two == n = 2
      one == n = 1
  IN
  /\ IF two THEN ClearWarpDelay ELSE UNCHANGED <<warpDelayTimeout, timers>>
  /\ isTwoFingerGesture' = IF two THEN TRUE
                           ELSE IF one THEN FALSE ELSE isTwoFingerGesture
  /\ isPanning' = IF two THEN TRUE ELSE isPanning
  /\ isDragStarted' = IF one THEN FALSE ELSE isDragStarted
  /\ isWarpingDelayed' = IF one THEN FALSE ELSE isWarpingDelayed
  /\ Render(history, historyIndex,
            IF one THEN FALSE ELSE isWarping,
            isComparing, FALSE, justAddedHistory)
  /\ UNCHANGED <<kernels, static, spacePressed, currentFBOIndex, nextTarget>>
  /\ lastOp' = IF two /\ FrameWarpGuard THEN "interrupt" ELSE "none"
  /\ saved' = NoField
  /\ touchDistance' = IF two THEN distance ELSE touchDistance
  /\ initialZoom' = IF two THEN zoom ELSE initialZoom
  /\ initialPan' = IF two THEN panX ELSE initialPan
  /\ UNCHANGED <<brush, view, component>>

TouchStart(n, distance) ==
  LET two == n = 2
      one == n = 1
  IN
  /\ IF two THEN ClearWarpDelay ELSE UNCHANGED <<warpDelayTimeout, timers>>
  /\ isTwoFingerGesture' = IF two THEN TRUE
                           ELSE IF one THEN FALSE ELSE isTwoFingerGesture
  /\ isPanning' = IF two THEN TRUE ELSE isPanning
  /\ isDragStarted' = IF two \/ one THEN FALSE ELSE isDragStarted
  /\ isWarpingDelayed' = IF two \/ one THEN FALSE ELSE isWarpingDelayed
  /\ Render(history, historyIndex,
            IF two \/ one THEN FALSE ELSE isWarping,
            isComparing, FALSE, justAddedHistory)
  /\ UNCHANGED <<kernels, static, spacePressed, currentFBOIndex, nextTarget>>
  /\ lastOp' = IF two /\ FrameWarpGuard THEN "interrupt" ELSE "none"
  /\ saved' = NoField
  /\ touchDistance' = IF two THEN distance ELSE touchDistance
  /\ initialZoom' = IF two THEN zoom ELSE initialZoom
  /\ initialPan' = IF two THEN panX ELSE initialPan
  /\ UNCHANGED <<brush, view, component>>

handleTouchStart(n) == \E distance \in RestDistances : TouchStart(n, distance)

\* distance is the finger distance of the event, deltaX its centre minus
\* panStart
TouchMove(n, distance, deltaX) ==
  LET newZoom == IF touchDistance > 0
                 THEN clampZoom((initialZoom * distance) \div touchDistance)
                 ELSE zoom
  IN
  /\ IF PinchGuard(n) THEN SetView(newZoom, initialPan + deltaX)
     ELSE UNCHANGED <<brush, view>>
  /\ Render(history, historyIndex, isWarping, isComparing, FALSE,
            justAddedHistory)
  /\ UNCHANGED <<kernels, static, interaction, currentFBOIndex, nextTarget>>
  /\ lastOp' = "none"
  /\ saved' = NoField
  /\ UNCHANGED <<gesture, component>>

handleTouchMove(n) ==
  \E distance \in RestDistances, deltaX \in StillDeltas :
     TouchMove(n, distance, deltaX)

\* ----------------------------------------------------------------- wheel
\* handleWheel: zoomFactor is 0.95 / 1.05 with the ctrl key and 0.97 / 1.03
\* without, in hundredths
zoomFactor(ctrlKey, delta) ==
  IF ctrlKey THEN (IF delta > 0 THEN 95 ELSE 105)
  ELSE (IF delta > 0 THEN 97 ELSE 103)

\* variant: a wheel event also resets the buffer pair to the original state
handleWheel_Resets(ctrlKey, delta) ==
  /\ SetView(clampZoom((zoom * zoomFactor(ctrlKey, delta)) \div 100), panX)
  /\ history' = history /\ historyIndex' = historyIndex
  /\ isWarping' = isWarping /\ isComparing' = isComparing
  /\ fbos' = restoreToOriginal(fbos)
  /\ UNCHANGED <<justAddedHistory, prevHistoryIndex, uDisplacement>>
  /\ UNCHANGED <<kernels, static, interaction, currentFBOIndex, nextTarget>>
  /\ lastOp' = "none"
  /\ saved' = NoField
  /\ UNCHANGED <<gesture, component>>

\* zoomFactor is 0.95 / 1.05 with the ctrl key and 0.97 / 1.03 without,
\* in hundredths
handleWheel(ctrlKey, delta) ==
  /\ SetView(clampZoom((zoom * zoomFactor(ctrlKey, delta)) \div 100), panX)
  /\ Render(history, historyIndex, isWarping, isComparing, FALSE,
            justAddedHistory)
  /\ UNCHANGED <<kernels, static, interaction, currentFBOIndex, nextTarget>>
  /\ lastOp' = "none"
  /\ saved' = NoField
  /\ UNCHANGED <<gesture, component>>

\* the provider's zoom setter, as the keyboard shortcuts call it
handleZoomChange(newZoom) ==
  /\ viewOps < MaxZoomSteps
  /\ BrushUniform(brushSize, newZoom)
  /\ zoom' = newZoom
  /\ panX' = panX
  /\ viewOps' = viewOps + 1
  /\ Render(history, historyIndex, isWarping, isComparing, FALSE,
            justAddedHistory)
  /\ UNCHANGED <<kernels, static, interaction, currentFBOIndex, nextTarget>>
  /\ lastOp' = "none"
  /\ saved' = NoField
  /\ UNCHANGED <<gesture, component>>

\* setBrushSize of the provider: the size slider (1 to 200) and the
\* shortcuts "[" and "]"
setBrushSize(size) ==
  /\ BrushUniform(size, zoom)
  /\ UNCHANGED <<kernels, static, history, historyIndex, isComparing,
                 isWarping, interaction, fbos, currentFBOIndex,
                 uDisplacement, prevHistoryIndex, justAddedHistory,
                 nextTarget, view, gesture, component>>
  /\ lastOp' = "none"
  /\ saved' = NoField

\* the zoom shortcuts: "+" or "=" multiplies the zoom by 1.1, "-" divides
\* it by 1.1
useKeyboardShortcuts(key) ==
  handleZoomChange(IF key = "+" THEN (zoom * 11) \div 10
                   ELSE (zoom * 10) \div 11)

handleResetView ==
  /\ viewOps < MaxZoomSteps
  /\ BrushUniform(brushSize, ZoomUnit)
  /\ zoom' = ZoomUnit
  /\ panX' = 0
  /\ viewOps' = viewOps + 1
  /\ Render(history, historyIndex, isWarping, isComparing, FALSE,
            justAddedHistory)
  /\ UNCHANGED <<kernels, static, interaction, currentFBOIndex, nextTarget>>
  /\ lastOp' = "none"
  /\ saved' = NoField
  /\ UNCHANGED <<gesture, component>>

handleTouchEnd(n) ==
  LET lift == n < 2
      none == n = 0
  IN
  /\ IF lift THEN ClearWarpDelay ELSE UNCHANGED <<warpDelayTimeout, timers>>
  /\ isPanning' = IF lift THEN FALSE ELSE isPanning
  /\ isTwoFingerGesture' = IF lift THEN FALSE ELSE isTwoFingerGesture
  /\ isDragStarted' = IF none THEN FALSE ELSE isDragStarted
  /\ isWarpingDelayed' = IF none THEN FALSE ELSE isWarpingDelayed
  /\ Render(history, historyIndex, IF none THEN FALSE ELSE isWarping,
            isComparing, FALSE, justAddedHistory)
  /\ UNCHANGED <<kernels, static, spacePressed, currentFBOIndex, nextTarget>>
  /\ lastOp' = "none"
  /\ saved' = NoField
  /\ touchDistance' = IF lift THEN 0 ELSE touchDistance
  /\ UNCHANGED <<brush, view, initialZoom, initialPan, component>>

handleTouchCancel ==
  /\ ClearWarpDelay
  /\ isPanning' = FALSE
  /\ isTwoFingerGesture' = FALSE
  /\ isDragStarted' = FALSE
  /\ isWarpingDelayed' = FALSE
  /\ Render(history, historyIndex, FALSE, isComparing, FALSE,
            justAddedHistory)
  /\ UNCHANGED <<kernels, static, spacePressed, currentFBOIndex, nextTarget>>
  /\ lastOp' = "none"
  /\ saved' = NoField
  /\ touchDistance' = 0
  /\ UNCHANGED <<brush, view, initialZoom, initialPan, component>>

\* the callback handlePointerMove gave to setTimeout(.., WARP_DELAY)
WarpDelayElapsed ==
  /\ timers > 0
  /\ timers' = timers - 1
  /\ warpDelayTimeout' = FALSE
  /\ isWarpingDelayed' = TRUE
  /\ Render(history, historyIndex, TRUE, isComparing, FALSE,
            justAddedHistory)
  /\ UNCHANGED <<kernels, static, isPanning, spacePressed, isTwoFingerGesture,
                 isDragStarted, currentFBOIndex, nextTarget>>
  /\ lastOp' = "elapsed"
  /\ saved' = NoField
  /\ UNCHANGED <<brush, view, gesture, component>>

\* ---------------------------------------------------------------- export
\* variant: the export always samples the first buffer of the pair
ExportSource_FirstBuffer == IF Len(fbos) > 0 THEN 0 ELSE uDisplacement

\* index of the buffer the export material samples: the authoritative one,
\* or, without a buffer pair, the one the cloned display material is bound to
ExportSource == IF Len(fbos) > 0 THEN currentFBOIndex ELSE uDisplacement

Placeholder(report) ==
  [result |-> "placeholder", report |-> report, rendered |-> FALSE,
   source |-> -1, disp |-> NoField, width |-> 0, height |-> 0]

\* what exportAtResolution(...args) returns; a released buffer has no
\* defined content
ExportOutcome(args) ==
  IF ~isInitialized THEN Placeholder("warn")
  ELSE IF Len(args) = 1 /\ args[1].type = "object"
       THEN IF ~args[1].isNull /\ args[1].keys = 0 THEN Placeholder("warn")
            ELSE IF args[1].isNull THEN Placeholder("warn")
            ELSE Placeholder("error")
  ELSE IF Len(args) < 2 \/ Len(args) > 3 THEN Placeholder("error")
  ELSE LET width   == args[1]
           height  == args[2]
           isHDR   == Len(args) = 3 /\ args[3].type = "object" /\ args[3].hdr
       IN
       IF width.type # "number" \/ height.type # "number"
       THEN Placeholder("error")
       ELSE IF ~width.finite \/ ~height.finite
               \/ width.halves <= 0 \/ height.halves <= 0
       THEN Placeholder("error")
       ELSE IF texture.width = 0 \/ texture.height = 0
       THEN Placeholder("error")
       ELSE [result |-> IF isHDR THEN "hdr" ELSE "image",
             report |-> "none", rendered |-> TRUE,
             source |-> ExportSource,
             disp |-> IF Len(fbos) > 0 THEN fbos[ExportSource + 1].disp
                      ELSE NoField,
             width |-> width.halves, height |-> height.halves]

exportAtResolution(args) ==
  /\ lastExport' = ExportOutcome(args)
  /\ UNCHANGED <<kernels, static, history, historyIndex, isComparing, isWarping,
                 interaction, fbos, currentFBOIndex, uDisplacement,
                 prevHistoryIndex, justAddedHistory, nextTarget>>
  /\ lastOp' = "export"
  /\ saved' = NoField
  /\ UNCHANGED <<brush, view, gesture, live, isInitialized, exportFunction,
                 loads, pendingImage>>

\* ------------------------------------------------------- mount / unmount
\* WarpEffect after its first render, before the effects of that render
InitConstructed ==
  /\ isMobile \in BOOLEAN
  /\ texture \in {[width |-> s[1], height |-> s[2]] : s \in ImageSizes}
  /\ history = <<>>
  /\ historyIndex = -1
  /\ isComparing = FALSE
  /\ isWarping = FALSE /\ isPanning = FALSE /\ spacePressed = FALSE
  /\ isTwoFingerGesture = FALSE
  /\ isDragStarted = FALSE /\ isWarpingDelayed = FALSE
  /\ warpDelayTimeout = FALSE /\ timers = 0
  /\ fbos = <<>>
  /\ currentFBOIndex = 0
  /\ uDisplacement = 0
  /\ prevHistoryIndex = -1
  /\ justAddedHistory = FALSE
  /\ nextTarget = 1
  /\ lastOp = "none"
  /\ saved = NoField
  /\ zoom = ZoomUnit /\ panX = 0 /\ viewOps = 0
  /\ brushSize = 50
  /\ uBrushSizeValue = BrushUniformEffect(50, ZoomUnit)
  /\ touchDistance = 0 /\ initialZoom = ZoomUnit /\ initialPan = 0
  /\ live = {}
  /\ isInitialized = FALSE
  /\ exportFunction = FALSE
  /\ lastExport = NoExport
  /\ loads = 0
  /\ pendingImage = <<>>
  /\ fragment = NoFragment
  /\ hdrFile = NoFile

\* the component has its buffer pair
Mounted == Len(fbos) > 0

\* The effects of the first render and of the render they cause: the
\* buffer initialisation effect, the history initialisation effect
\* (onHistoryChange([null]), setIsInitialized(true)), the restore effect
\* for index 0 and the hand-over of exportAtResolution to the provider.
MountEffects ==
  /\ ~isInitialized /\ ~Mounted
  /\ fbos' = [i \in 1..2 |-> [width |-> texture.width,
                               height |-> texture.height,
                               disp |-> ZeroDisp]]
  /\ currentFBOIndex' = 0
  /\ uDisplacement' = 0
  /\ live' = live \cup BufferResources(loads + 1)
  /\ loads' = loads + 1
  /\ history' = onHistoryChange(<<NullItem>>)
  /\ historyIndex' = 0
  /\ prevHistoryIndex' = 0
  /\ justAddedHistory' = FALSE
  /\ isInitialized' = TRUE
  /\ exportFunction' = TRUE
  /\ UNCHANGED <<kernels, static, isComparing, isWarping, interaction, nextTarget,
                 brush, view, gesture, lastExport, pendingImage>>
  /\ lastOp' = "load"
  /\ saved' = NoField

\* the cleanup WarpEffect runs when it is unmounted; the provider keeps
\* its state and the export function it was handed
Unmount ==
  /\ Mounted
  /\ ClearWarpDelay
  /\ fbos' = <<>>
  /\ live' = live \ BufferResources(loads)
  /\ UNCHANGED <<kernels, static, history, historyIndex, isComparing, isWarping,
                 isPanning, spacePressed, isTwoFingerGesture, isDragStarted,
                 isWarpingDelayed, currentFBOIndex, uDisplacement,
                 prevHistoryIndex, justAddedHistory, nextTarget>>
  /\ lastOp' = "unmount"
  /\ saved' = NoField
  /\ UNCHANGED <<brush, view, gesture, isInitialized, exportFunction, lastExport,
                 loads, pendingImage>>

\* ------------------------------------------------------ image replacement
\* reader.onload of handleImageUpload: the decoding of the new image is
\* started and the history, the view and the export function are reset.
\* The render with the empty list runs the compare and restore effects
\* (r1) and the history initialisation effect, whose onHistoryChange([null])
\* causes a second render; its restore effect copies the original state
\* unless a stroke is in progress, its compare effect does while comparing.
handleImageUpload(size) ==
  LET r1 == RenderEffects(<<>>, -1, isWarping, isComparing, TRUE,
                          justAddedHistory, fbos)
      fb == IF ~isWarping \/ isComparing THEN restoreToOriginal(r1.fbos)
            ELSE r1.fbos
  IN
  /\ Mounted /\ pendingImage = <<>> /\ loads < MaxImages
  /\ pendingImage' = size
  /\ history' = onHistoryChange(<<NullItem>>)
  /\ historyIndex' = 0
  /\ fbos' = fb
  /\ prevHistoryIndex' = 0
  /\ justAddedHistory' = FALSE
  /\ uDisplacement' = currentFBOIndex
  /\ BrushUniform(brushSize, ZoomUnit)
  /\ zoom' = ZoomUnit /\ panX' = 0
  /\ exportFunction' = FALSE
  /\ isInitialized' = TRUE
  /\ live' = live
  /\ UNCHANGED <<kernels, static, isComparing, isWarping, interaction,
                 currentFBOIndex, nextTarget, viewOps, gesture,
                 lastExport, loads>>
  /\ lastOp' = "upload"
  /\ saved' = NoField

\* img.onload of handleImageUpload: setImage gives WarpEffect a new
\* texture, and the buffer initialisation effect disposes the buffer pair
\* and the original state and allocates new ones of the new size.
ImageLoaded ==
  /\ Mounted /\ pendingImage # <<>>
  /\ texture' = [width |-> pendingImage[1], height |-> pendingImage[2]]
  /\ fbos' = [i \in 1..2 |-> [width |-> pendingImage[1],
                               height |-> pendingImage[2],
                               disp |-> ZeroDisp]]
  /\ currentFBOIndex' = 0
  /\ uDisplacement' = 0
  /\ live' = (live \ BufferResources(loads)) \cup BufferResources(loads + 1)
  /\ loads' = loads + 1
  /\ pendingImage' = <<>>
  /\ UNCHANGED <<kernels, isMobile, history, historyIndex, isComparing,
                 isWarping,
                 interaction, prevHistoryIndex, justAddedHistory, nextTarget,
                 brush, view, gesture, isInitialized, exportFunction, lastExport>>
  /\ lastOp' = "loaded"
  /\ saved' = NoField

\* ---------------------------------------------------------- key handlers
handleKeyDown ==
  /\ spacePressed' = TRUE
  /\ Render(history, historyIndex, isWarping, isComparing, FALSE,
            justAddedHistory)
  /\ UNCHANGED <<kernels, static, isPanning, isTwoFingerGesture, isDragStarted,
                 isWarpingDelayed, warpDelayTimeout, timers,
                 currentFBOIndex, nextTarget>>
  /\ lastOp' = "none"
  /\ saved' = NoField
  /\ UNCHANGED <<brush, view, gesture, component>>

handleKeyUp ==
  /\ spacePressed' = FALSE
  /\ isPanning' = FALSE
  /\ Render(history, historyIndex, isWarping, isComparing, FALSE,
            justAddedHistory)
  /\ UNCHANGED <<kernels, static, isTwoFingerGesture, isDragStarted,
                 isWarpingDelayed, warpDelayTimeout, timers,
                 currentFBOIndex, nextTarget>>
  /\ lastOp' = "none"
  /\ saved' = NoField
  /\ UNCHANGED <<brush, view, gesture, component>>

\* ------------------------------------------------------ history handlers
handleUndo ==
  /\ Render(history,
            IF historyIndex > 0 THEN historyIndex - 1 ELSE historyIndex,
            isWarping, isComparing, FALSE, justAddedHistory)
  /\ UNCHANGED <<kernels, static, interaction, currentFBOIndex, nextTarget>>
  /\ lastOp' = "undo"
  /\ saved' = IF historyIndex > 0 THEN fbos[currentFBOIndex + 1].disp
              ELSE NoField
  /\ UNCHANGED <<brush, view, gesture, component>>

\* variant: redo() has no ceiling
handleRedo_NoCeiling ==
  /\ Render(history, historyIndex + 1,
            isWarping, isComparing, FALSE, justAddedHistory)
  /\ UNCHANGED <<kernels, static, interaction, currentFBOIndex, nextTarget>>
  /\ lastOp' = IF lastOp = "undo" /\ saved # NoField THEN "undoRedo"
               ELSE "redo"
  /\ saved' = IF lastOp = "undo" THEN saved ELSE NoField
  /\ UNCHANGED <<brush, view, gesture, component>>

handleRedo ==
  /\ Render(history,
            IF historyIndex < Len(historyRef) - 1 THEN historyIndex + 1
            ELSE historyIndex,
            isWarping, isComparing, FALSE, justAddedHistory)
  /\ UNCHANGED <<kernels, static, interaction, currentFBOIndex, nextTarget>>
  /\ lastOp' = IF lastOp = "undo" /\ saved # NoField THEN "undoRedo"
               ELSE "redo"
  /\ saved' = IF lastOp = "undo" THEN saved ELSE NoField
  /\ UNCHANGED <<brush, view, gesture, component>>

handleRestoreAll ==
  /\ Render(history, IF Len(history) > 0 THEN 0 ELSE historyIndex,
            isWarping, isComparing, FALSE, justAddedHistory)
  /\ UNCHANGED <<kernels, static, interaction, currentFBOIndex, nextTarget>>
  /\ lastOp' = "restoreAll"
  /\ saved' = NoField
  /\ UNCHANGED <<brush, view, gesture, component>>

\* variant: an index outside the list resets the buffers to the original
RestoreCall_ToOriginal(target) ==
  LET inRange == Len(history) > 0 /\ target >= 0 /\ target < Len(history)
                 /\ Len(fbos) > 0
  IN
  /\ fbos' = IF inRange THEN restoreFromHistory(history, target, fbos)
             ELSE restoreToOriginal(fbos)
  /\ uDisplacement' = currentFBOIndex
  /\ UNCHANGED <<kernels, static, history, historyIndex, isComparing, isWarping,
                 interaction, currentFBOIndex, prevHistoryIndex,
                 justAddedHistory, nextTarget>>
  /\ lastOp' = IF inRange THEN "restore" ELSE "restoreRejected"
  /\ saved' = NoField
  /\ UNCHANGED <<brush, view, gesture, component>>

\* a call restoreFromHistory(target) of the function the current render
\* closed over
RestoreCall(target) ==
  LET inRange == Len(history) > 0 /\ target >= 0 /\ target < Len(history)
                 /\ Len(fbos) > 0
  IN
  /\ fbos' = restoreFromHistory(history, target, fbos)
  /\ uDisplacement' = IF inRange THEN currentFBOIndex ELSE uDisplacement
  /\ UNCHANGED <<kernels, static, history, historyIndex, isComparing, isWarping,
                 interaction, currentFBOIndex, prevHistoryIndex,
                 justAddedHistory, nextTarget>>
  /\ lastOp' = IF inRange THEN "restore" ELSE "restoreRejected"
  /\ saved' = NoField
  /\ UNCHANGED <<brush, view, gesture, component>>

\* the Toolbar enables the compare button only while historyIndex > 0
handleCompareToggle ==
  /\ historyIndex > 0
  /\ Render(history, historyIndex, isWarping, ~isComparing, FALSE,
            justAddedHistory)
  /\ UNCHANGED <<kernels, static, interaction, currentFBOIndex, nextTarget>>
  /\ lastOp' = IF isComparing THEN "compareOff" ELSE "none"
  /\ saved' = NoField
  /\ UNCHANGED <<brush, view, gesture, component>>

\* ------------------------------------------------------------ frame tick
\* variant: the pass renders into the buffer it reads
nextFBOIndex_Same == currentFBOIndex

\* useFrame: the index of nextDisp, the buffer the pass renders into
nextFBOIndex == (currentFBOIndex + 1) % 2

\* variant: the display material is bound before the swap
boundFBOIndex_BeforeSwap == currentFBOIndex

\* useFrame: the index the last block of the tick binds, read after any swap
boundFBOIndex == currentFBOIndex'

\* useFrame: uBrushSize.value = brushSize / 200.0, set before the pass
PassBrushSize == brushSize * ZoomUnit

\* useFrame: hit is the raycast of the pointer onto the image mesh, delta
\* the difference currentUV - prevUV of this frame
FrameTick(hit, delta, maxPasses) ==
  LET warp        == FrameWarpGuard /\ hit
      currentDisp == fbos[currentFBOIndex + 1]
      next        == nextFBOIndex
  IN
  /\ (warp /\ delta # 0) => PassCount(currentDisp.disp) < maxPasses
  /\ fbos' = IF warp
             THEN [fbos EXCEPT ![next + 1].disp =
                                  Accumulate(currentDisp.disp, delta)]
             ELSE fbos
  /\ currentFBOIndex' = IF warp THEN next ELSE currentFBOIndex
  /\ uDisplacement' = IF Len(fbos) > 0 THEN boundFBOIndex
                      ELSE uDisplacement
  /\ UNCHANGED <<kernels, static, history, historyIndex, isComparing, isWarping,
                 interaction, prevHistoryIndex, justAddedHistory, nextTarget>>
  /\ lastOp' = "none"
  /\ saved' = NoField
  /\ brushSize' = brushSize
  /\ uBrushSizeValue' = IF warp THEN PassBrushSize ELSE uBrushSizeValue
  /\ UNCHANGED <<view, gesture, component>>

useFrame(hit, delta) == FrameTick(hit, delta, MaxPasses)

\* createHDRFile: the header bytes followed by the RGBE data
createHDRFile(floatPixels, width, height) ==
  /\ hdrFile' = [floatPixels |-> floatPixels, width |-> width,
                 height |-> height,
                 header |-> header(width, height),
                 rgbeData |-> rgbeData(floatPixels, width * height)]
  /\ UNCHANGED <<static, history, historyIndex, isComparing, isWarping,
                 interaction, fbos, currentFBOIndex, uDisplacement,
                 prevHistoryIndex, justAddedHistory, nextTarget, lastOp,
                 saved, brush, view, gesture, component, fragment>>

\* BrushShader.fragmentShader on the texel at vUv, along one axis of the
\* quad; the displacement is in units of 1 / (UVUnit * FalloffUnit * 100)
fragmentShader(vUv, uMouse, uPrevMouse, bSize, brushStrength, prevDisp) ==
  LET dist   == IF vUv < uMouse THEN uMouse - vUv ELSE vUv - uMouse
      size   == uBrushSize(bSize)
      inside == dist < size
      f      == IF inside THEN falloff(dist, size, brushStrength) ELSE 0
  IN
  /\ fragment' = [vUv |-> vUv, uMouse |-> uMouse, uPrevMouse |-> uPrevMouse,
                  brushSize |-> bSize, brushStrength |-> brushStrength,
                  prevDisp |-> prevDisp, dist |-> dist, falloff |-> f,
                  disp |-> IF inside
                           THEN prevDisp + toMouse(uMouse, uPrevMouse)
                                             * f * brushStrength
                           ELSE prevDisp]
  /\ UNCHANGED <<static, history, historyIndex, isComparing, isWarping,
                 interaction, fbos, currentFBOIndex, uDisplacement,
                 prevHistoryIndex, justAddedHistory, nextTarget, lastOp,
                 saved, brush, view, gesture, component, hdrFile>>

Next ==
  \/ \E ptype \in PointerTypes : handlePointerDown(ptype)
  \/ \E ptype \in PointerTypes, d \in MoveDistances :
        handlePointerMove(ptype, d)
  \/ handlePointerUp
  \/ onPointerOut
  \/ \E n \in {1, 2, 3} : handleTouchStart(n)
  \/ \E n \in TouchCounts : handleTouchMove(n)
  \/ \E n \in TouchCounts : handleTouchEnd(n)
  \/ handleTouchCancel
  \/ WarpDelayElapsed
  \/ handleKeyDown
  \/ handleKeyUp
  \/ handleUndo
  \/ handleRedo
  \/ handleRestoreAll
  \/ handleCompareToggle
  \/ \E hit \in BOOLEAN, delta \in Deltas : useFrame(hit, delta)

Spec == Init /\ [][Next]_vars

\* Strokes drawn with the mouse, committed by a pointer-up or abandoned by
\* a touch cancel, interleaved with the history operations and the compare
\* toggle, up to HistoryCommits commits.
NextHistory ==
  \/ handlePointerDown("mouse")
  \/ \E delta \in Deltas : FrameTick(TRUE, delta, HistoryPasses)
  \/ PointerRelease(FALSE, HistoryCommits)
  \/ handleTouchCancel
  \/ handleUndo
  \/ handleRedo
  \/ handleRestoreAll
  \/ handleCompareToggle

SpecHistory == Init /\ [][NextHistory]_vars

\* Pointer, touch, timer and frame events without the history operations,
\* with up to TouchTimers warp-delay timers pending at the same time.
NextTouch ==
  \/ \E ptype \in PointerTypes : handlePointerDown(ptype)
  \/ \E ptype \in PointerTypes, d \in MoveDistances :
        \E deltaX \in StillDeltas : PointerMove(ptype, d, deltaX, TouchTimers)
  \/ handlePointerUp
  \/ onPointerOut
  \/ \E n \in {1, 2} : handleTouchStart(n)
  \/ \E n \in TouchCounts : handleTouchEnd(n)
  \/ handleTouchCancel
  \/ WarpDelayElapsed
  \/ \E delta \in Deltas : useFrame(TRUE, delta)

SpecTouch == Init /\ [][NextTouch]_vars

\* Brush passes of a mouse stroke interleaved with wheel zoom, pinch zoom
\* and two-finger pan, up to MaxViewSteps changes of the view.
NextView ==
  \/ handlePointerDown("mouse")
  \/ \E delta \in Deltas : FrameTick(TRUE, delta, MaxPasses)
  \/ \E ctrlKey \in BOOLEAN, delta \in WheelDeltas : handleWheel(ctrlKey, delta)
  \/ \E n \in {1, 2}, distance \in PinchDistances : TouchStart(n, distance)
  \/ \E n \in {1, 2}, distance \in PinchDistances, deltaX \in PanDeltas :
        TouchMove(n, distance, deltaX)
  \/ \E n \in {0, 1} : handleTouchEnd(n)

SpecView == Init /\ [][NextView]_vars

\* Every operation that sets the zoom: the wheel, the pinch, the zoom
\* shortcuts and the reset of the view, up to MaxZoomSteps changes.
NextZoom ==
  \/ \E ctrlKey \in BOOLEAN, delta \in WheelDeltas : handleWheel(ctrlKey, delta)
  \/ \E distance \in PinchDistances : TouchStart(2, distance)
  \/ \E distance \in PinchDistances, deltaX \in PanDeltas :
        TouchMove(2, distance, deltaX)
  \/ \E n \in {0, 1} : handleTouchEnd(n)
  \/ \E key \in {"+", "-"} : useKeyboardShortcuts(key)
  \/ handleResetView

SpecZoom == Init /\ [][NextZoom]_vars

\* The accumulation passes of a mouse stroke, and the brush shader run on
\* single texels with every combination of pointer positions, brush size,
\* brush strength and previous displacement.
NextBrush ==
  \/ handlePointerDown("mouse")
  \/ \E delta \in Deltas : FrameTick(TRUE, delta, MaxPasses)
  \/ \E vUv \in TexelUVs, uMouse \in MouseUVs, uPrevMouse \in PrevMouseUVs,
        bSize \in BrushSizes, brushStrength \in BrushStrengths,
        prevDisp \in PrevDisps :
        fragmentShader(vUv, uMouse, uPrevMouse, bSize, brushStrength,
                       prevDisp)

SpecBrush == Init /\ [][NextBrush]_vars

\* Mouse strokes with their accumulation passes, between wheel zooms and
\* changes of the brush size.
NextRadius ==
  \/ handlePointerDown("mouse")
  \/ \E delta \in Deltas : FrameTick(TRUE, delta, MaxPasses)
  \/ PointerRelease(FALSE, MaxCommits)
  \/ \E ctrlKey \in BOOLEAN, delta \in WheelDeltas : handleWheel(ctrlKey, delta)
  \/ \E size \in BrushSizes : setBrushSize(size)

SpecRadius == Init /\ [][NextRadius]_vars

\* createHDRFile called on float read-backs of up to four pixels.
NextHDR ==
  \E size \in HdrSizes :
    \E floatPixels \in FloatBuffers(size[1] * size[2]) :
      createHDRFile(floatPixels, size[1], size[2])

SpecHDR == Init /\ [][NextHDR]_vars

\* The life of one WarpEffect from its first render to its unmount, with
\* mouse strokes, the compare toggle and calls of exportAtResolution at any
\* point of it.
NextExport ==
  \/ MountEffects
  \/ Mounted /\ handlePointerDown("mouse")
  \/ Mounted /\ \E delta \in Deltas : FrameTick(TRUE, delta, MaxPasses)
  \/ Mounted /\ PointerRelease(FALSE, MaxCommits)
  \/ Mounted /\ handleCompareToggle
  \/ Unmount
  \/ \E args \in ExportArgLists : exportAtResolution(args)

SpecExport == InitConstructed /\ [][NextExport]_vars

\* Mouse strokes and commits interleaved with calls of restoreFromHistory
\* for every index from -1 to the length of the list.
NextRestore ==
  \/ handlePointerDown("mouse")
  \/ \E delta \in Deltas : FrameTick(TRUE, delta, MaxPasses)
  \/ PointerRelease(FALSE, MaxCommits)
  \/ \E target \in -1..Len(history) : RestoreCall(target)

SpecRestore == Init /\ [][NextRestore]_vars

\* Mouse strokes and commits, and the replacement of the image by another
\* one, up to MaxImages images.
NextUpload ==
  \/ handlePointerDown("mouse")
  \/ \E delta \in Deltas : FrameTick(TRUE, delta, MaxPasses)
  \/ PointerRelease(FALSE, MaxCommits)
  \/ \E size \in UploadSizes : handleImageUpload(size)
  \/ ImageLoaded

SpecUpload == Init /\ [][NextUpload]_vars

\* The replacement of the image with compare mode on or off: mouse strokes
\* and commits, the compare toggle of the toolbar, uploads and image loads.
NextCompareUpload ==
  \/ NextUpload
  \/ handleCompareToggle

SpecCompareUpload == Init /\ [][NextCompareUpload]_vars

\* Strokes drawn with the mouse on a mobile-class device, one after the
\* other, up to CapacityCommits commits.
InitCapacity == Init /\ isMobile

NextCapacity ==
  \/ handlePointerDown("mouse")
  \/ \E delta \in Deltas : FrameTick(TRUE, delta, HistoryPasses)
  \/ PointerRelease(FALSE, CapacityCommits)

SpecCapacity == InitCapacity /\ [][NextCapacity]_vars

\* Mouse clicks on a mobile-class device (each commits the field as it is),
\* with undo and the compare toggle, up to CapacityCommits commits: capacity
\* eviction and branch truncation in the same behaviour.
NextEviction ==
  \/ handlePointerDown("mouse")
  \/ PointerRelease(FALSE, CapacityCommits)
  \/ handleUndo
  \/ handleCompareToggle

SpecEviction == InitCapacity /\ [][NextEviction]_vars

\* ------------------------------------------------------ interaction state
TwoFingerGesture == isTwoFingerGesture
Panning == PointerPanGuard
Warping == FrameWarpGuard
Idle == ~Warping /\ ~Panning /\ ~TwoFingerGesture

\* the authoritative buffer of the pair
Authoritative == fbos[currentFBOIndex + 1]

\* both buffers of the pair hold the field d
BothBuffersHold(d) == \A i \in 1..Len(fbos) : fbos[i].disp = d

\* =================================================================
\* Properties
\* =================================================================

\* C1: for any sequence of stroke commits, history entry 0 decodes to the
\* all-zero displacement field (it stays the zero-displacement baseline).
C1_HistoryBaseline ==
  Len(history) > 0 => Decode(history[1]) = ZeroDisp

\* C2: after N commits in a row with N greater than the history capacity,
\* the list has exactly historyLimit entries, entry 0 is the zero baseline
\* and entries 1..historyLimit-1 are the newest historyLimit-1 snapshots in
\* commit order.
C2_CapacityEviction ==
  nextTarget - 1 > historyLimit =>
    /\ Len(history) = historyLimit
    /\ IsNull(history[1])
    /\ \A k \in 2..historyLimit :
         history[k].target = (nextTarget - 1) - historyLimit + k

\* C3: a commit made while the history index is before the tail keeps the
\* entries up to the index, drops every later entry, appends the new
\* snapshot as the tail and puts the index on it; redo() at the tail changes
\* neither the index nor the buffers.
C3_BranchTruncation ==
  [][ /\ (history' # history /\ historyIndex < Len(history) - 1) =>
           /\ history' = Append(SubSeq(history, 1, historyIndex + 1), Snapshot)
           /\ historyIndex' = Len(history') - 1
      /\ (handleRedo /\ historyIndex = Len(history) - 1) =>
           /\ historyIndex' = historyIndex
           /\ fbos' = fbos
           /\ currentFBOIndex' = currentFBOIndex
    ]_vars

\* C3 witness: redo() was issued after a commit that discarded snapshot 1
\* and appended snapshot 2 as the tail.
C3_Witness ==
  /\ lastOp = "redo"
  /\ Len(history) = 2 /\ history[2].target = 2
  /\ historyIndex = 1

C6_RestoreAlways ==
  [][ ((handleUndo \/ handleRedo \/ handleRestoreAll)
       /\ historyIndex' # historyIndex) =>
        /\ BothBuffersHold(Decode(history[historyIndex + 1]))'
        /\ uDisplacement' = currentFBOIndex'
    ]_vars

\* C6 (amended): an index change made by undo(), redo() or restoreAll()
\* while no stroke is in progress and compare mode is off leaves both
\* buffers equal to the snapshot at the new index and the compositor bound
\* to the authoritative buffer; while a stroke is in progress (isWarping)
\* and compare mode is off the buffers are left untouched, and in compare
\* mode both buffers hold the original (all-zero) state afterwards.
C6_RestoreOutsideStroke ==
  [][ ((handleUndo \/ handleRedo \/ handleRestoreAll)
       /\ historyIndex' # historyIndex) =>
        IF isComparing
        THEN BothBuffersHold(ZeroDisp)' /\ uDisplacement' = currentFBOIndex'
        ELSE IF isWarping
        THEN fbos' = fbos /\ uDisplacement' = uDisplacement
        ELSE /\ BothBuffersHold(Decode(history[historyIndex + 1]))'
             /\ uDisplacement' = currentFBOIndex'
    ]_vars

\* C6 witness: undo() outside a stroke and outside compare mode moved the
\* index from 2 to 1 and both buffers hold snapshot 1, which has a brush
\* pass in it.
C6_Witness ==
  /\ lastOp = "undo" /\ ~isWarping /\ ~isComparing
  /\ historyIndex = 1 /\ Len(history) = 3
  /\ PassCount(history[2].disp) > 0
  /\ BothBuffersHold(Decode(history[2]))
  /\ uDisplacement = currentFBOIndex

\* C7: a second touch point that appears while Warping ends Warping at once
\* (isWarping is reset, the state is TwoFingerGesture), and while the
\* two-finger gesture lasts no accumulation pass is issued: the buffer pair
\* is not swapped.
C7_GestureExclusivity ==
  [][ /\ (handleTouchStart(2) /\ Warping) =>
           ~Warping' /\ ~isWarping' /\ TwoFingerGesture'
      /\ TwoFingerGesture => currentFBOIndex' = currentFBOIndex
    ]_vars

\* C7 witness: a second touch point interrupted a stroke that had already
\* written a brush pass.
C7_Witness ==
  /\ lastOp = "interrupt" /\ TwoFingerGesture /\ ~Warping
  /\ PassCount(Authoritative.disp) > 0

C9_PointerUpCommits ==
  [][ (handlePointerUp /\ Warping) =>
        /\ Len(history') >= 2
        /\ \A k \in 1..(Len(history') - 1) :
             \E j \in 1..(historyIndex + 1) : history[j] = history'[k]
        /\ history'[Len(history')].target = nextTarget
        /\ \A k \in 1..Len(history) : history[k].target # nextTarget
        /\ history'[Len(history')].disp =
             RenderCopy(Authoritative.disp,
                        Authoritative.width, Authoritative.height,
                        history'[Len(history')].width,
                        history'[Len(history')].height)
        /\ historyIndex' = Len(history') - 1
        /\ Idle'
    ]_vars

\* C9 witness: a pointer-up committed a stroke with a brush pass in it while
\* the two buffers of the pair differed, and the state is Idle.
C9_Witness ==
  /\ lastOp = "commit" /\ Idle
  /\ Len(history) = 2 /\ historyIndex = 1
  /\ PassCount(history[2].disp) > 0
  /\ fbos[1].disp # fbos[2].disp

\* C10: a pointer-up received before the warp delay has elapsed leaves the
\* history list and the history index unchanged and, outside a two-finger
\* gesture, leaves the state Idle.
C10_QuickTap ==
  [][ (handlePointerUp /\ ~isWarpingDelayed) =>
        /\ history' = history
        /\ historyIndex' = historyIndex
        /\ nextTarget' = nextTarget
        /\ ~TwoFingerGesture => Idle'
    ]_vars

\* C10 witness: a touch drag was released while its warp-delay timer was
\* still pending; the state is Idle, the timer is cancelled and the history
\* holds a committed stroke.
C10_Witness ==
  /\ lastOp = "tap" /\ Idle /\ ~warpDelayTimeout
  /\ Len(history) = 2 /\ historyIndex = 1

C12_TimerCancelled ==
  [][ /\ (handlePointerUp \/ onPointerOut \/ handleTouchCancel
          \/ handleTouchStart(2)) => timers' = 0
      /\ timers > 0 => currentFBOIndex' = currentFBOIndex
    ]_vars

\* C13: while compare mode is active no accumulation pass is issued (the
\* buffer pair is not swapped), no warp-delay timer is started, isDragStarted
\* is never set, and isWarping is set by no pointer or touch event (only by
\* a warp-delay timer started before compare mode); the state is not Warping
\* as long as compare mode lasts.
C13_CompareBlocksStrokes ==
  [][ isComparing =>
        /\ currentFBOIndex' = currentFBOIndex
        /\ timers' <= timers
        /\ ~isDragStarted => ~isDragStarted'
        /\ (~isWarping /\ isWarping') => WarpDelayElapsed
        /\ isComparing' => ~Warping'
    ]_vars

\* C13 witness: compare mode is on and a warp-delay timer started before it
\* has elapsed, so that every flag of a stroke is set, and the buffers still
\* hold the original state.
C13_Witness ==
  /\ isComparing /\ lastOp = "elapsed"
  /\ isWarping /\ isWarpingDelayed /\ isDragStarted
  /\ BothBuffersHold(ZeroDisp)
  /\ PassCount(history[historyIndex + 1].disp) > 0

\* C14: when compare mode ends both buffers hold the snapshot at the current
\* history index, whatever the index was when compare mode began, and the
\* compositor is bound to the authoritative buffer.
C14_CompareEndRestores ==
  [][ (handleCompareToggle /\ isComparing) =>
        /\ ~isComparing'
        /\ BothBuffersHold(Decode(history[historyIndex + 1]))'
        /\ uDisplacement' = currentFBOIndex'
    ]_vars

\* C14 witness: compare mode ended at index 1 of a history with two
\* snapshots and both buffers hold snapshot 1, which has a brush pass in it.
C14_Witness ==
  /\ lastOp = "compareOff" /\ ~isComparing
  /\ Len(history) = 3 /\ historyIndex = 1
  /\ PassCount(history[2].disp) > 0
  /\ BothBuffersHold(Decode(history[2]))

\* C15: a wheel event and a pinch (two-finger touch move) change nothing but
\* the view: both displacement buffers, the authority index, the history
\* list and the history index are the same after the event, and so are the
\* interaction flags; a wheel event leaves the pan alone as well.
C15_ViewOnly ==
  [][ /\ (\E ctrlKey \in BOOLEAN, delta \in WheelDeltas :
             handleWheel(ctrlKey, delta)) =>
            /\ fbos' = fbos /\ currentFBOIndex' = currentFBOIndex
            /\ history' = history /\ historyIndex' = historyIndex
            /\ interaction' = interaction /\ panX' = panX
      /\ (\E n \in {1, 2}, distance \in PinchDistances, deltaX \in PanDeltas :
             TouchMove(n, distance, deltaX)) =>
            /\ fbos' = fbos /\ currentFBOIndex' = currentFBOIndex
            /\ history' = history /\ historyIndex' = historyIndex
            /\ interaction' = interaction ]_vars

\* a pinch to the largest zoom with a two-finger pan, over a buffer that
\* holds a brush pass
C15_Witness ==
  /\ zoom = maxZoom /\ panX = 1 /\ viewOps = 1
  /\ isTwoFingerGesture /\ touchDistance = 1
  /\ PassCount(Authoritative.disp) > 0

\* an argument list of two or three values whose first two are positive
\* finite integers
WellFormed(args) ==
  /\ Len(args) \in {2, 3}
  /\ \A i \in {1, 2} : /\ args[i].type = "number" /\ args[i].finite
                        /\ args[i].halves > 0 /\ args[i].halves % 2 = 0

\* C16: every export that renders samples the buffer that is authoritative
\* at the time of the call, and the display material of the preview is
\* bound to that same buffer; the field exported is the field of that
\* buffer.  (The call changes nothing but lastExport and lastOp, so the
\* state it leaves shows the buffers as they were when it was made.)
C16_ExportSource ==
  (lastOp = "export" /\ lastExport.rendered) =>
    /\ lastExport.source = currentFBOIndex
    /\ uDisplacement = currentFBOIndex
    /\ Mounted => lastExport.disp = Authoritative.disp

\* an export taken in the middle of a stroke, from the second buffer
C16_Witness ==
  /\ lastOp = "export" /\ lastExport.rendered
  /\ lastExport.source = 1 /\ currentFBOIndex = 1
  /\ PassCount(lastExport.disp) > 0
  /\ Warping

\* C17: exportAtResolution called with a width or height that is not a
\* positive finite integer, or with a malformed argument list, reports an
\* error, returns the empty placeholder without rendering, and leaves the
\* buffers, the authority index, the history list and the history index
\* untouched.
C17_InvalidArgsRejected ==
  [][ \A args \in ExportArgLists :
        (exportAtResolution(args) /\ ~WellFormed(args)) =>
          /\ lastExport'.result = "placeholder"
          /\ lastExport'.report # "none"
          /\ ~lastExport'.rendered
          /\ fbos' = fbos /\ currentFBOIndex' = currentFBOIndex
          /\ history' = history /\ historyIndex' = historyIndex ]_vars

\* the source texture and the buffer pair are ready
ExportReady ==
  /\ isInitialized
  /\ texture.width > 0 /\ texture.height > 0
  /\ Mounted

\* C18: an export called while the source texture or the buffer pair is not
\* ready (before initialisation, or after the buffers were released) does
\* not render and returns the empty placeholder as a reported failure.
C18_UnreadyRejected ==
  [][ (~ExportReady /\ \E args \in ExportArgLists : exportAtResolution(args)) =>
        /\ lastExport'.result = "placeholder"
        /\ lastExport'.report # "none"
        /\ ~lastExport'.rendered ]_vars

C20_ReplacementReleases ==
  [][ loads' = loads + 1 => live' \cap live = {} ]_vars

\* the snapshot render targets that are allocated
LiveSnapshots == {r \in live : r[1] = "snapshot"}

\* C21: every history snapshot that has left the list, by capacity eviction
\* or by branch truncation, has been released: every snapshot render target
\* still allocated belongs to an entry of the list.
C21_NoLeakedSnapshot == LiveSnapshots \subseteq SnapshotResources(history)

\* C22: no history entry whose render target was released is accessed: the
\* list holds only entries that are still allocated, the history index
\* points inside the list, and the entry the cleanup of the compare effect
\* restores from (the current entry of the render before) is still
\* allocated after the handler that causes the cleanup.
C22_OnlyLiveEntries ==
  /\ [](/\ SnapshotResources(history) \subseteq live
        /\ Len(history) > 0 => historyIndex \in 0..(Len(history) - 1))
  /\ [][ (isComparing /\ Len(history) > 0) =>
           SnapshotResources(<<history[historyIndex + 1]>>) \subseteq live' ]_vars

\* a commit after which the list has lost its baseline to capacity
\* eviction and holds an entry whose predecessor was truncated and released
C22_Witness ==
  /\ lastOp = "commit"
  /\ ~IsNull(history[1])
  /\ \E r \in SnapshotResources(history) :
       r[2] > 1 /\ <<"snapshot", r[2] - 1>> \notin live

\* C23: whatever sequence of wheel, pinch, zoom-shortcut and reset-view
\* operations has run, the zoom lies between MIN_ZOOM (0.05) and maxZoom
\* (24 on a constrained device, 48 otherwise).
C23_ZoomInRange == zoom \in MIN_ZOOM..maxZoom

\* C24: an accumulation pass whose currentUV equals its prevUV leaves the
\* displacement as it was: the shader writes every texel back unchanged,
\* inside the brush as well as outside, whatever the falloff, the strength
\* and the brush size, and the authoritative buffer after the pass holds
\* the field it held before.
C24_ZeroStroke ==
  /\ [](fragment.uMouse = fragment.uPrevMouse =>
           fragment.disp = fragment.prevDisp)
  /\ [][ (FrameWarpGuard /\ FrameTick(TRUE, 0, MaxPasses)) =>
            (/\ currentFBOIndex' # currentFBOIndex
             /\ fbos'[currentFBOIndex' + 1].disp =
                  fbos[currentFBOIndex + 1].disp) ]_vars

\* a texel inside the brush, with a falloff above zero and a displacement
\* from earlier passes, written by a pass with currentUV = prevUV during a
\* stroke whose buffer holds a brush pass
C24_Witness ==
  /\ fragment.brushSize > 0 /\ fragment.uMouse = fragment.uPrevMouse
  /\ fragment.falloff > 0 /\ fragment.prevDisp # 0
  /\ fragment.dist > 0
  /\ FrameWarpGuard /\ PassCount(Authoritative.disp) > 0
  /\ fbos[1].disp = fbos[2].disp

\* C25: with the brush size and the strength fixed, the falloff does not
\* grow with the distance from the pointer inside the brush, and a texel at
\* or beyond the brush radius gets no contribution: it keeps its previous
\* displacement.
C25_FalloffMonotone ==
  /\ [](fragment.dist >= uBrushSize(fragment.brushSize) =>
           (fragment.falloff = 0 /\ fragment.disp = fragment.prevDisp))
  /\ [][ (/\ fragment.brushSize > 0
          /\ fragment'.brushSize = fragment.brushSize
          /\ fragment'.brushStrength = fragment.brushStrength
          /\ fragment'.dist >= fragment.dist) =>
            fragment'.falloff <= fragment.falloff ]_vars

\* a texel half-way to the edge of the largest brush at full strength: its
\* falloff is above zero and below that of the texel under the pointer
C25_Witness ==
  /\ fragment.brushSize = 150 /\ fragment.brushStrength = 100
  /\ fragment.dist = 1
  /\ fragment.falloff > 0 /\ fragment.falloff < FalloffUnit
  /\ fragment.disp # fragment.prevDisp

\* a 2 x 2 read-back that holds the bright pixel (4, 0, 0) and a black one
BrightAndBlack ==
  /\ hdrFile.width = 2 /\ hdrFile.height = 2
  /\ \E i, j \in 0..3 :
       /\ SubSeq(hdrFile.floatPixels, i * 4 + 1, i * 4 + 3) = <<64, 0, 0>>
       /\ SubSeq(hdrFile.floatPixels, j * 4 + 1, j * 4 + 3) = <<0, 0, 0>>

\* the data part: 4 * W * H bytes, (0, 0, 0, 0) for every black pixel and
\* (128, 0, 0, 131) for the bright one
HdrData ==
  /\ Len(hdrFile.rgbeData) = 4 * hdrFile.width * hdrFile.height
  /\ \A i \in 0..3 :
       LET px    == SubSeq(hdrFile.floatPixels, i * 4 + 1, i * 4 + 3)
           bytes == SubSeq(hdrFile.rgbeData, i * 4 + 1, i * 4 + 4)
       IN  /\ px = <<0, 0, 0>> => bytes = <<0, 0, 0, 0>>
           /\ px = <<64, 0, 0>> => bytes = <<128, 0, 0, 131>>

\* the five header lines (the second one a comment), a blank line and the
\* resolution line of a 2 x 2 image, each ended by a line feed
HeaderLines ==
  <<"#?RADIANCE", LF, hdrFile.header[3], LF, "FORMAT=32-bit_rle_rgbe", LF,
    "EXPOSURE=1.0", LF, "GAMMA=1.0", LF, LF, "-Y ", "2", " +X ", "2", LF>>

\* C26: createHDRFile on a 2 x 2 buffer with a bright pixel (4, 0, 0) and a
\* black pixel writes the five header lines, a blank line, the resolution
\* line "-Y 2 +X 2" and a blank line, followed by exactly 4 * W * H RGBE
\* bytes in which the black pixel is (0, 0, 0, 0).
C26_HeaderTemplate ==
  BrightAndBlack =>
    (hdrFile.header = Append(HeaderLines, LF) /\ HdrData)

\* C26, amended: the header ends with the line feed of the resolution
\* line, and the RGBE bytes follow it directly; there is no blank line
\* between the resolution line and the data.
C26_HeaderThenData ==
  BrightAndBlack => (hdrFile.header = HeaderLines /\ HdrData)

\* the file made from a 2 x 2 buffer whose first pixel is the bright one
\* and whose last pixel is black
C26_Witness ==
  /\ BrightAndBlack
  /\ SubSeq(hdrFile.rgbeData, 1, 4) = <<128, 0, 0, 131>>
  /\ SubSeq(hdrFile.rgbeData, 13, 16) = <<0, 0, 0, 0>>
  /\ Len(hdrFile.header) = 16

\* C27: the authority index is always 0 or 1, and an accumulation pass
\* reads the authoritative buffer, renders into the other buffer of the
\* pair and leaves the one it read untouched, and flips the authority
\* index once, to the buffer it rendered into.
C27_PingPong ==
  /\ [](currentFBOIndex \in {0, 1})
  /\ [][ (FrameWarpGuard
          /\ \E delta \in Deltas : FrameTick(TRUE, delta, MaxPasses)) =>
            (/\ currentFBOIndex' = 1 - currentFBOIndex
             /\ fbos'[currentFBOIndex + 1] = fbos[currentFBOIndex + 1]
             /\ \E delta \in Deltas :
                  fbos'[currentFBOIndex' + 1].disp =
                    Accumulate(fbos[currentFBOIndex + 1].disp, delta)) ]_vars

\* the second pass of a stroke on the second image: the index is back at
\* 0, the first buffer holds the brush pass and the second one the field
\* the pass read
C27_Witness ==
  /\ loads = 2 /\ FrameWarpGuard
  /\ currentFBOIndex = 0
  /\ PassCount(fbos[1].disp) > 0 /\ fbos[2].disp = ZeroDisp

\* C28: when a frame tick ends, the display material's displacement input
\* is the buffer that is authoritative then, after the swap of the tick if
\* there was one.
C28_BoundAfterSwap ==
  [][ (\E delta \in Deltas : FrameTick(TRUE, delta, HistoryPasses)) =>
        uDisplacement' = currentFBOIndex' ]_vars

\* a tick that swapped: the display is bound to the second buffer, which
\* holds a brush pass the first buffer does not have
C28_Witness ==
  /\ uDisplacement = 1 /\ currentFBOIndex = 1
  /\ PassCount(fbos[2].disp) > PassCount(fbos[1].disp)
  /\ FrameWarpGuard /\ historyIndex > 0

\* C29: right after a stroke commit the interaction is out of Warping and
\* the committed entry is the snapshot of the authoritative buffer as the
\* stroke left it; and outside Warping no step writes the buffers or moves
\* the authority index unless it is a history operation or the compare
\* toggle, so no accumulation pass runs before Warping is entered again.
C29_CommitAfterWarping ==
  /\ [](lastOp = "commit" =>
          /\ ~Warping
          /\ LET entry == history[historyIndex + 1]
             IN  entry.disp = RenderCopy(Authoritative.disp,
                                         Authoritative.width,
                                         Authoritative.height,
                                         entry.width, entry.height))
  /\ [][ (/\ ~Warping
          /\ history' = history /\ historyIndex' = historyIndex
          /\ isComparing' = isComparing) =>
            (fbos' = fbos /\ currentFBOIndex' = currentFBOIndex) ]_vars

\* a commit of a stroke with a brush pass, taken from the second buffer
\* while the first one still holds the field before the pass
C29_Witness ==
  /\ lastOp = "commit" /\ ~isWarping /\ ~isDragStarted
  /\ currentFBOIndex = 1
  /\ PassCount(history[historyIndex + 1].disp) > 0
  /\ PassCount(fbos[1].disp) = 0

\* C30: the render that follows a stroke commit restores nothing: both
\* buffers and the authority index are as the stroke left them.  The
\* just-committed mark is consumed by that render, so it is never set
\* between handlers, and an undo or a restore-all that moves the index
\* right after a commit copies the entry it moves to into both buffers.
C30_NoRestoreEcho ==
  /\ [](~justAddedHistory)
  /\ [][ lastOp' = "commit" =>
           (fbos' = fbos /\ currentFBOIndex' = currentFBOIndex) ]_vars
  /\ [][ (/\ lastOp = "commit"
          /\ lastOp' \in {"undo", "restoreAll"}
          /\ historyIndex' # historyIndex) =>
            (BothBuffersHold(Decode(history[historyIndex + 1])))' ]_vars

\* the commit of a second stroke: the index moved to 2 and the buffer the
\* stroke did not render into last still holds less than the committed field
C30_Witness ==
  /\ lastOp = "commit" /\ historyIndex = 2
  /\ prevHistoryIndex = 2
  /\ PassCount(Authoritative.disp) > 0
  /\ fbos[1].disp # fbos[2].disp

\* distance between two zoom values
ZoomStep(from, to) == IF to > from THEN to - from ELSE from - to

\* C31: a wheel event with the ctrl key moves the zoom by no more than a
\* wheel event without it would move it from the same zoom in the same
\* direction, and by less when neither result is clamped.
C31_CtrlFiner ==
  [][ \A delta \in WheelDeltas :
        handleWheel(TRUE, delta) =>
          LET plain == clampZoom((zoom * zoomFactor(FALSE, delta)) \div 100)
          IN  /\ ZoomStep(zoom, zoom') <= ZoomStep(zoom, plain)
              /\ (plain \notin {MIN_ZOOM, maxZoom} /\ plain # zoom)
                   => ZoomStep(zoom, zoom') < ZoomStep(zoom, plain) ]_vars

\* C32: the brush radius an accumulation pass hands to the brush shader is
\* brushSize / 200 / zoom for the brush size and the zoom of that moment,
\* the zoom by which the preview diameter is divided as well.
C32_RadiusDividedByZoom ==
  [][ (FrameWarpGuard
       /\ \E delta \in Deltas : FrameTick(TRUE, delta, MaxPasses)) =>
         uBrushSizeValue' = (brushSize * ZoomUnit * ZoomUnit) \div zoom ]_vars

\* C33: whenever the interaction is Idle and compare mode is off, the
\* authoritative buffer holds the brush passes of the entry at the history
\* index and no others: nothing of a stroke that was not committed.
C33_NoUncommittedStroke ==
  (Idle /\ ~isComparing /\ Len(fbos) > 0 /\ Len(history) > 0
     /\ historyIndex \in 0..(Len(history) - 1)) =>
    PassCount(Authoritative.disp) = PassCount(history[historyIndex + 1].disp)

\* C34: a release changes the history list only if the stroke it ends
\* issued a pass with a non-zero pointer delta, that is, if the
\* authoritative buffer holds a brush pass the entry at the history index
\* does not have; a press and release without such a pass appends nothing
\* and discards no redo entry.
C34_ClickCommitsNothing ==
  [][ (/\ PointerRelease(FALSE, HistoryCommits)
       /\ PassCount(Authoritative.disp) =
            PassCount(history[historyIndex + 1].disp)) =>
         (history' = history /\ historyIndex' = historyIndex) ]_vars

\* C35: compare mode is never on in a state where the compare toggle is
\* disabled (history index <= 0) and there is no redo entry that could
\* raise the index again.
C35_NotStuckInCompare ==
  ~(isComparing /\ historyIndex <= 0 /\ Len(history) <= historyIndex + 1)

\* The upload actions under the scheduling the browser provides: a
\* started image decode completes (img.onload fires).
SpecUploadFair == Init /\ [][NextUpload]_vars /\ WF_vars(ImageLoaded)

\* C36: after every completed image load, the replacement of an already
\* loaded image included, the export function is eventually handed to the
\* provider again, so that export becomes available for the new image.
C36_ExportHandedAgain ==
  [](lastOp = "loaded" => <>exportFunction)

\* A pointer that never goes down: pointer movement of a mouse without a
\* button or of a hovering pen ("pen" takes the branches of "touch"), the
\* warp-delay timer, frames, the pointer leaving the mesh, the space key
\* and the wheel.  handlePointerDown and the touch handlers are not among
\* the actions.
NextHover ==
  \/ \E ptype \in PointerTypes, d \in MoveDistances :
        \E deltaX \in StillDeltas : PointerMove(ptype, d, deltaX, MaxTimers)
  \/ WarpDelayElapsed
  \/ \E delta \in Deltas : useFrame(TRUE, delta)
  \/ onPointerOut
  \/ handleKeyDown
  \/ handleKeyUp
  \/ \E ctrlKey \in BOOLEAN, delta \in WheelDeltas : handleWheel(ctrlKey, delta)

SpecHover == Init /\ [][NextHover]_vars

\* C37: Warping is entered only for a pointer that has gone down since the
\* interaction last returned to Idle.  While no pointer has gone down at
\* all, pointer movement never starts the warp-delay timer, Warping is
\* never entered and no accumulation pass is written to the buffers.
C37_HoverNeverWarps ==
  /\ timers = 0 /\ ~warpDelayTimeout
  /\ ~Warping
  /\ \A i \in 1..Len(fbos) : PassCount(fbos[i].disp) = 0

\* C38: an export issued while compare mode is active renders the
\* displacement of the entry at the current history index, not the zero
\* displacement the compare effect wrote into the buffers.
C38_ExportDuringCompare ==
  (/\ lastOp = "export" /\ lastExport.rendered /\ Mounted
   /\ isComparing
   /\ historyIndex \in 0..(Len(history) - 1)) =>
     PassCount(lastExport.disp) = PassCount(history[historyIndex + 1].disp)
====
